---- MODULE Spec2Model ----
(***************************************************************************)
(* Model of io_scene_godot/converters/animation.py: the animation player   *)
(* lookup, the animation resources of a player, and the action dispatcher  *)
(* export_animation_data with its constraint baking.                       *)
(*                                                                         *)
(* Blender data blocks are records.  An action is an id (a positive        *)
(* integer) mapped to its name in bpy.data.actions; a name is a tuple of   *)
(* one-character strings, so that appending and slicing names are the      *)
(* sequence operations Python performs.  None is 0.                        *)
(***************************************************************************)
EXTENDS Integers, Sequences, FiniteSets, TLC

None == 0

NEAREST_INTERPOLATION == 0
LINEAR_INTERPOLATION == 1

BAKING_SUFFIX == <<"-", "-", "b", "e", "i", "n", "g", "-", "b", "a", "k", "i", "n", "g">>

\* the name bpy_extras.anim_utils.bake_action gives the action it creates
NEW_ACTION_NAME == <<"A", "c", "t", "i", "o", "n">>

(***************************************************************************)
(* Bounds of the model.                                                    *)
(***************************************************************************)
\* number of export_animation_data calls in one run
MaxCalls == 2
\* number of timeline strips of the first entity
MaxStrips == 2
\* number of timeline strips of the second entity
MaxStripsChild == 1
\* number of get_animation_player calls that create a player (SpecPlayer)
MaxPlayers == 4

(***************************************************************************)
(* The scene: node 1 is the scene root, 2 and 4 are its children, 3 is the  *)
(* child of 2.  Nodes 2 and 3 are exported Blender objects.                *)
(***************************************************************************)
Nodes == {1, 2, 3, 4}
Entities == {2, 3}
NodeParent(n) == IF n = 1 THEN None ELSE IF n = 3 THEN 2 ELSE 1

Modes == {"ACTIONS", "SCENE_ANIMATION", "SQUASHED_ACTIONS"}
ActionTypes == {"transform", "shapekey"}

\* the actions of bpy.data.actions before any export, with their names
InitialActions == (1 :> <<"A">>) @@ (2 :> <<"B">>)

BlenderObjectName(o) == IF o = 2 THEN <<"p">> ELSE <<"c">>

VARIABLES
    animation_modes,   \* export_settings['animation_modes']
    players,           \* AnimationPlayer nodes, in creation order
    escn_nodes,        \* players handed to escn_file.add_node
    resources,         \* AnimationResources registered in the escn file
    objects,           \* the Blender object of each entity
    actions,           \* bpy.data.actions: action id -> name
    pc,                \* position inside export_animation_data
    cur,               \* locals of the running (or last) export_animation_data
    pre,               \* what the running (or last) call found on entry
    exportLog,         \* exporter_func invocations of the running (or last) call
    ncalls,            \* export_animation_data calls so far
    got,               \* argument and result of the last get_animation_player
    fps,               \* bpy.context.scene.render.fps
    input,             \* the frame list and value list of a track to serialize
    keys,              \* what the serialization of input produced
    anim,              \* an AnimationResource receiving tracks
    tfm                \* arguments and outcome of an export_transform_action

exportVars == <<animation_modes, players, escn_nodes, resources, objects, actions,
                pc, cur, pre, exportLog, ncalls, got>>

trackVars == <<fps, input, keys, anim, tfm>>

vars == <<exportVars, trackVars>>

(***************************************************************************)
(* Names.                                                                  *)
(***************************************************************************)
\* name + BAKING_SUFFIX
AppendSuffix(name) == name \o BAKING_SUFFIX

\* name[:-len(BAKING_SUFFIX)] cuts one character too few
StripSuffixShort(name) == SubSeq(name, 1, Len(name) - Len(BAKING_SUFFIX) + 1)

\* name[:-len(BAKING_SUFFIX)]
StripSuffix(name) == SubSeq(name, 1, Len(name) - Len(BAKING_SUFFIX))

EndsWithSuffix(name) ==
    /\ Len(name) >= Len(BAKING_SUFFIX)
    /\ SubSeq(name, Len(name) - Len(BAKING_SUFFIX) + 1, Len(name)) = BAKING_SUFFIX

(***************************************************************************)
(* get_animation_player                                                    *)
(***************************************************************************)
\* the AnimationPlayer children of a node, by index in players
PlayerChildren(ps, n) == {p \in DOMAIN ps : ps[p].parent = n}

\* for child in node.children: if child.get_type() == 'AnimationPlayer': break
FirstPlayerChild(ps, n) ==
    IF PlayerChildren(ps, n) = {} THEN None
    ELSE CHOOSE p \in PlayerChildren(ps, n) : \A q \in PlayerChildren(ps, n) : p <= q

RECURSIVE SceneRoot(_)
\* while node_ptr.parent is not None: node_ptr = node_ptr.parent
SceneRoot(n) == IF NodeParent(n) = None THEN n ELSE SceneRoot(NodeParent(n))

RECURSIVE WalkUpFromParent(_, _)
\* the upward walk, begun at the parent of the node instead of the node
WalkUpFromParent(ps, n) ==
    IF n = None \/ NodeParent(n) = None THEN None
    ELSE IF FirstPlayerChild(ps, NodeParent(n)) # None
         THEN FirstPlayerChild(ps, NodeParent(n))
         ELSE WalkUpFromParent(ps, NodeParent(n))

RECURSIVE WalkUp(_, _)
\* while node_ptr is not None: look at its children, else node_ptr = node_ptr.parent
WalkUp(ps, n) ==
    IF n = None THEN None
    ELSE IF FirstPlayerChild(ps, n) # None THEN FirstPlayerChild(ps, n)
         ELSE WalkUp(ps, NodeParent(n))

\* the node a new player is attached to
AnimationBase(mode, n) ==
    IF mode = "ACTIONS" THEN n
    ELSE IF mode = "SCENE_ANIMATION" THEN SceneRoot(n)
    ELSE n

\* the existing player the policy finds, or None
FindAnimationPlayer(ps, mode, n) ==
    IF mode = "ACTIONS" THEN None
    ELSE IF mode = "SCENE_ANIMATION" THEN FirstPlayerChild(ps, SceneRoot(n))
    ELSE WalkUp(ps, n)

\* AnimationPlayer.__init__
NewAnimationPlayer(parent) ==
    [parent |-> parent, default_animation |-> None, anims |-> [x \in {} |-> None]]

\* the players, the escn nodes and the returned player after the call
get_animation_player(ps, en, mode, n) ==
    LET found == FindAnimationPlayer(ps, mode, n) IN
    IF found # None
    THEN [players |-> ps, escn_nodes |-> en, ret |-> found]
    ELSE [players |-> Append(ps, NewAnimationPlayer(AnimationBase(mode, n))),
          escn_nodes |-> Append(en, Len(ps) + 1),
          ret |-> Len(ps) + 1]

(***************************************************************************)
(* AnimationPlayer resources                                               *)
(***************************************************************************)
\* AnimationResource.__init__; tracks lists the nodes whose exporter wrote
\* into the resource, one entry per exporter_func invocation
NewAnimationResource(name) == [name |-> name, tracks |-> <<>>]

\* self['anims/<name>'] = "SubResource(<id>)"
SetAnim(anims, name, rid) ==
    [x \in DOMAIN anims \cup {name} |-> IF x = name THEN rid ELSE anims[x]]

\* create_animation_resource that also makes the new resource the default
create_animation_resource_as_default(ps, rs, p, name) ==
    [players |-> [ps EXCEPT ![p].anims = SetAnim(@, name, Len(rs) + 1),
                            ![p].default_animation = Len(rs) + 1],
     resources |-> Append(rs, NewAnimationResource(name)),
     ret |-> Len(rs) + 1]

\* AnimationPlayer.create_animation_resource: the resource is appended to the
\* escn file (force_add_internal_resource) and the player's anims entry is set
create_animation_resource(ps, rs, p, name) ==
    [players |-> [ps EXCEPT ![p].anims = SetAnim(@, name, Len(rs) + 1)],
     resources |-> Append(rs, NewAnimationResource(name)),
     ret |-> Len(rs) + 1]

\* AnimationPlayer.add_default_animation_resource
add_default_animation_resource(ps, rs, p, name) ==
    LET c == create_animation_resource(ps, rs, p, name) IN
    [players |-> [c.players EXCEPT ![p].default_animation = c.ret],
     resources |-> c.resources,
     ret |-> c.ret]

\* the test of export_active_action, always taken
DefaultAlwaysMissing(ps, p) == TRUE

\* if animation_player.default_animation is None
DefaultMissing(ps, p) == ps[p].default_animation = None

(***************************************************************************)
(* Blender data: w is [objects, actions]                                   *)
(***************************************************************************)
has_object_constraint(ob) == ob.constraints
has_pose_constraint(ob) == ob.pose_constraints

\* blender_object.animation_data.action, None without animation data
ActiveAction(ob) == IF ob.animation_data THEN ob.action ELSE None

\* a fresh action id
NewActionId(acts) ==
    CHOOSE i \in 1..(Cardinality(DOMAIN acts) + 1) :
        /\ i \notin DOMAIN acts
        /\ \A j \in 1..(i - 1) : j \in DOMAIN acts

\* bpy_extras.anim_utils.bake_action: bakes into `action`, or into a new
\* action when `action` is None; it creates the animation data of the object
\* when there is none.  Whether it leaves the baked action assigned to the
\* object is the library's choice: `activates`.
bake_action(w, o, action, activates) ==
    LET baked == IF action = None THEN NewActionId(w.actions) ELSE action
        acts == IF action = None
                THEN [x \in DOMAIN w.actions \cup {baked} |->
                         IF x = baked THEN NEW_ACTION_NAME ELSE w.actions[x]]
                ELSE w.actions
        obs == [w.objects EXCEPT
                   ![o].animation_data = TRUE,
                   ![o].action = IF activates THEN baked
                                 ELSE IF w.objects[o].animation_data THEN @ ELSE None]
    IN [w |-> [objects |-> obs, actions |-> acts], baked |-> baked]

\* bake_constraint_to_action
bake_constraint_to_action(w, o, base_action, bake_type, in_place, activates) ==
    LET w1 == IF base_action # None
              THEN [w EXCEPT !.objects[o].action = base_action]
              ELSE w
        action_bake_into == IF in_place THEN base_action ELSE None
        b == bake_action(w1, o, action_bake_into, activates)
    IN IF in_place
       THEN [w |-> b.w, ret |-> action_bake_into,
             call |-> [type |-> bake_type, in_place |-> in_place, base |-> base_action]]
       ELSE [w |-> [b.w EXCEPT !.actions[b.baked] =
                        IF base_action # None
                        THEN StripSuffix(b.w.actions[base_action])
                        ELSE BlenderObjectName(o) \o NEW_ACTION_NAME],
             ret |-> b.baked,
             call |-> [type |-> bake_type, in_place |-> in_place, base |-> base_action]]

\* action_baker whose second bake is not in place
action_baker_twice_new(w, o, action_to_bake, has_obj_cst, has_pose_cst, activates) ==
    IF has_obj_cst /\ has_pose_cst
    THEN LET tmp == bake_constraint_to_action(w, o, action_to_bake, "OBJECT", FALSE, activates)
             r == bake_constraint_to_action(tmp.w, o, tmp.ret, "POSE", FALSE, activates)
         IN [w |-> r.w, ret |-> r.ret, bakes |-> <<tmp.call, r.call>>]
    ELSE LET r == bake_constraint_to_action(w, o, action_to_bake, "POSE", FALSE, activates)
         IN [w |-> r.w, ret |-> r.ret, bakes |-> <<r.call>>]

\* action_baker that bakes type OBJECT when only object constraints exist
action_baker_object_type(w, o, action_to_bake, has_obj_cst, has_pose_cst, activates) ==
    IF has_obj_cst /\ has_pose_cst
    THEN LET tmp == bake_constraint_to_action(w, o, action_to_bake, "OBJECT", FALSE, activates)
             r == bake_constraint_to_action(tmp.w, o, tmp.ret, "POSE", TRUE, activates)
         IN [w |-> r.w, ret |-> r.ret, bakes |-> <<tmp.call, r.call>>]
    ELSE IF has_pose_cst
    THEN LET r == bake_constraint_to_action(w, o, action_to_bake, "POSE", FALSE, activates)
         IN [w |-> r.w, ret |-> r.ret, bakes |-> <<r.call>>]
    ELSE LET r == bake_constraint_to_action(w, o, action_to_bake, "OBJECT", FALSE, activates)
         IN [w |-> r.w, ret |-> r.ret, bakes |-> <<r.call>>]

\* action_baker (called only when one of the two flags is set)
action_baker(w, o, action_to_bake, has_obj_cst, has_pose_cst, activates) ==
    IF has_obj_cst /\ has_pose_cst
    THEN LET tmp == bake_constraint_to_action(w, o, action_to_bake, "OBJECT", FALSE, activates)
             r == bake_constraint_to_action(tmp.w, o, tmp.ret, "POSE", TRUE, activates)
         IN [w |-> r.w, ret |-> r.ret, bakes |-> <<tmp.call, r.call>>]
    ELSE IF has_pose_cst
    THEN LET r == bake_constraint_to_action(w, o, action_to_bake, "POSE", FALSE, activates)
         IN [w |-> r.w, ret |-> r.ret, bakes |-> <<r.call>>]
    ELSE LET r == bake_constraint_to_action(w, o, action_to_bake, "POSE", FALSE, activates)
         IN [w |-> r.w, ret |-> r.ret, bakes |-> <<r.call>>]

\* bpy.data.actions.remove: the action leaves the storage and every object it
\* was assigned to loses it
remove_action(w, a) ==
    [objects |-> [o \in DOMAIN w.objects |->
                     IF w.objects[o].animation_data /\ w.objects[o].action = a
                     THEN [w.objects[o] EXCEPT !.action = None]
                     ELSE w.objects[o]],
     actions |-> [x \in DOMAIN w.actions \ {a} |-> w.actions[x]]]

\* action.name = name
rename_action(w, a, name) == [w EXCEPT !.actions[a] = name]

(***************************************************************************)
(* Initial states: the scene before the export                             *)
(***************************************************************************)
StripLists(n) == UNION {[1..k -> {None} \cup DOMAIN InitialActions] : k \in 0..n}

\* an object with no animation data
NoAnimationData(cst, pcst) ==
    [animation_data |-> FALSE, action |-> None, strips |-> <<>>,
     constraints |-> cst, pose_constraints |-> pcst]

\* the objects an entity can be: strips are the strips of all its nla_tracks
\* in iteration order, each given by its action (or None)
BlenderObjects(maxStrips, flags) ==
    {NoAnimationData(cst, pcst) : cst \in flags, pcst \in flags}
    \cup [animation_data : {TRUE},
          action : {None} \cup DOMAIN InitialActions,
          strips : StripLists(maxStrips),
          constraints : flags,
          pose_constraints : flags]

NoCall ==
    [node |-> None, action_type |-> "transform",
     use_export_animation |-> TRUE, animation_data |-> FALSE,
     need_bake |-> FALSE,
     has_obj_cst |-> FALSE, has_pose_cst |-> FALSE,
     player |-> None, active_action |-> None, exported_actions |-> {},
     idx |-> 0, src |-> None, to_export |-> None, bakes |-> <<>>]

Snapshot(acts, active, rs, default) ==
    [actions |-> acts, active |-> active, nres |-> Len(rs), default |-> default]

InitCommon ==
    /\ animation_modes \in Modes
    /\ players = <<>>
    /\ escn_nodes = <<>>
    /\ resources = <<>>
    /\ actions = InitialActions
    /\ pc = "idle"
    /\ cur = NoCall
    /\ pre = Snapshot(InitialActions, None, <<>>, None)
    /\ exportLog = <<>>
    /\ ncalls = 0
    /\ got = [node |-> None, player |-> None]

\* export_transform_action has not been called
NoTransformExport ==
    [pc |-> "none", node_type |-> "Spatial", parent_type |-> "Spatial",
     bones |-> {}, fcurves |-> <<>>, frame_range_twice |-> <<0, 0>>,
     map |-> <<>>, tracks |-> <<>>, error |-> "none"]

\* nothing is serialized and no track is added
InitNoTrack ==
    /\ tfm = NoTransformExport
    /\ fps = 1
    /\ input = [frames |-> <<>>, values |-> <<>>]
    /\ keys = [kind |-> "none"]
    /\ anim = [length |-> [num |-> 0, den |-> 1], track_count |-> 0, tracks |-> <<>>]

Init ==
    /\ InitCommon
    /\ InitNoTrack
    /\ objects \in [Entities -> BlenderObjects(MaxStrips, BOOLEAN)]
    /\ Len(objects[3].strips) <= MaxStripsChild
    /\ ~objects[3].constraints /\ ~objects[3].pose_constraints

(***************************************************************************)
(* export_animation_data, step by step                                     *)
(***************************************************************************)
\* need_bake that ignores the subject of the animation
NeedBakeAnySubject(ob, action_type) ==
    has_object_constraint(ob) \/ has_pose_constraint(ob)

\* need_bake
NeedBake(ob, action_type) ==
    action_type = "transform" /\ (has_object_constraint(ob) \/ has_pose_constraint(ob))

\* the two early returns
export_animation_data_return(node, action_type, use_export_animation) ==
    /\ pc = "idle"
    /\ ncalls < MaxCalls
    /\ \/ ~use_export_animation
       \/ ~objects[node].animation_data /\ ~NeedBake(objects[node], action_type)
    /\ ncalls' = ncalls + 1
    /\ cur' = [NoCall EXCEPT !.node = node, !.action_type = action_type,
                              !.use_export_animation = use_export_animation,
                              !.animation_data = objects[node].animation_data]
    /\ pre' = Snapshot(actions, ActiveAction(objects[node]), resources, None)
    /\ exportLog' = <<>>
    /\ UNCHANGED trackVars
    /\ UNCHANGED <<animation_modes, players, escn_nodes, resources, objects,
                   actions, pc, got>>

\* up to the backup of the active action
export_animation_data_begin(node, action_type, use_export_animation) ==
    /\ pc = "idle"
    /\ ncalls < MaxCalls
    /\ use_export_animation
    /\ objects[node].animation_data \/ NeedBake(objects[node], action_type)
    /\ LET ob == objects[node]
           gp == get_animation_player(players, escn_nodes, animation_modes, node)
       IN /\ players' = gp.players
          /\ escn_nodes' = gp.escn_nodes
          /\ got' = [node |-> node, player |-> gp.ret]
          /\ cur' = [NoCall EXCEPT
                        !.node = node,
                        !.action_type = action_type,
                        !.animation_data = ob.animation_data,
                        !.need_bake = NeedBake(ob, action_type),
                        !.has_obj_cst = has_object_constraint(ob),
                        !.has_pose_cst = has_pose_constraint(ob),
                        !.player = gp.ret,
                        !.active_action = ActiveAction(ob),
                        !.idx = 1]
          /\ pre' = Snapshot(actions, ActiveAction(ob), resources,
                             gp.players[gp.ret].default_animation)
    /\ ncalls' = ncalls + 1
    /\ exportLog' = <<>>
    /\ pc' = "active"
    /\ UNCHANGED trackVars
    /\ UNCHANGED <<animation_modes, resources, objects, actions>>

\* if (active_action is not None or
\*         not blender_object.animation_data and need_bake)
ExportsActiveAction ==
    \/ cur.active_action # None
    \/ ~objects[cur.node].animation_data /\ cur.need_bake

\* the renaming and baking of one pass; action is the action of the pass and
\* remember tells whether the pass adds it to exported_actions
BakeStep(action, remember, activates) ==
    IF cur.need_bake
    THEN LET w0 == [objects |-> objects, actions |-> actions]
             w1 == IF action # None
                   THEN rename_action(w0, action, AppendSuffix(actions[action]))
                   ELSE w0
             b == action_baker(w1, cur.node, action, cur.has_obj_cst,
                               cur.has_pose_cst, activates)
         IN /\ objects' = b.w.objects
            /\ actions' = b.w.actions
            /\ cur' = [cur EXCEPT
                          !.exported_actions = IF remember THEN @ \cup {action} ELSE @,
                          !.src = action, !.to_export = b.ret, !.bakes = b.bakes]
    ELSE /\ cur' = [cur EXCEPT
                       !.exported_actions = IF remember THEN @ \cup {action} ELSE @,
                       !.src = action, !.to_export = action, !.bakes = <<>>]
         /\ UNCHANGED <<objects, actions>>

\* exporter_func writes the tracks of the action into the resource
exporter_func(rs, rid, node) == [rs EXCEPT ![rid].tracks = Append(@, node)]

\* the removal of the baked action and the renaming back, after exporter_func
CleanupStep ==
    IF cur.need_bake
    THEN LET w0 == [objects |-> objects, actions |-> actions]
             w1 == remove_action(w0, cur.to_export)
             w2 == IF cur.src # None
                   THEN rename_action(w1, cur.src, StripSuffix(w1.actions[cur.src]))
                   ELSE w1
         IN /\ objects' = w2.objects
            /\ actions' = w2.actions
    ELSE UNCHANGED <<objects, actions>>

LogEntry(kind, rid) ==
    [kind |-> kind, src |-> cur.src, name |-> actions[cur.to_export],
     res |-> rid, bakes |-> cur.bakes]

\* export_active_action up to the baking: only a baked active action is
\* added to exported_actions
export_active_action_bake(activates) ==
    /\ pc = "active"
    /\ ExportsActiveAction
    /\ BakeStep(cur.active_action, cur.need_bake /\ cur.active_action # None, activates)
    /\ pc' = "active_export"
    /\ UNCHANGED trackVars
    /\ UNCHANGED <<animation_modes, players, escn_nodes, resources, pre,
                   exportLog, ncalls, got>>

\* export_active_action from the default resource on
export_active_action_export ==
    /\ pc = "active_export"
    /\ LET d == IF DefaultMissing(players, cur.player)
                THEN add_default_animation_resource(players, resources, cur.player,
                                                    actions[cur.to_export])
                ELSE [players |-> players, resources |-> resources,
                      ret |-> players[cur.player].default_animation]
       IN /\ players' = d.players
          /\ resources' = exporter_func(d.resources, d.ret, cur.node)
          /\ exportLog' = Append(exportLog, LogEntry("active", d.ret))
    /\ CleanupStep
    /\ cur' = [cur EXCEPT !.to_export = None]
    /\ pc' = "nla"
    /\ UNCHANGED trackVars
    /\ UNCHANGED <<animation_modes, escn_nodes, pre, ncalls, got>>

\* the active action is not exported
skip_active_action ==
    /\ pc = "active"
    /\ ~ExportsActiveAction
    /\ pc' = "nla"
    /\ UNCHANGED trackVars
    /\ UNCHANGED <<animation_modes, players, escn_nodes, resources, objects,
                   actions, cur, pre, exportLog, ncalls, got>>

\* the strips of blender_object.animation_data.nla_tracks
Strips == objects[cur.node].strips

\* if (nla_strip.action is not None and
\*         nla_strip.action not in exported_actions)
ExportsStrip(strip_action) ==
    strip_action # None /\ strip_action \notin cur.exported_actions

\* export_nla_action up to the baking
export_nla_action_bake(activates) ==
    /\ pc = "nla"
    /\ cur.idx <= Len(Strips)
    /\ ExportsStrip(Strips[cur.idx])
    /\ BakeStep(Strips[cur.idx], TRUE, activates)
    /\ pc' = "nla_export"
    /\ UNCHANGED trackVars
    /\ UNCHANGED <<animation_modes, players, escn_nodes, resources, pre,
                   exportLog, ncalls, got>>

\* export_nla_action from create_animation_resource on
export_nla_action_export ==
    /\ pc = "nla_export"
    /\ LET c == create_animation_resource(players, resources, cur.player,
                                          actions[cur.to_export])
       IN /\ players' = c.players
          /\ resources' = exporter_func(c.resources, c.ret, cur.node)
          /\ exportLog' = Append(exportLog, LogEntry("nla", c.ret))
    /\ CleanupStep
    /\ cur' = [cur EXCEPT !.to_export = None, !.idx = @ + 1]
    /\ pc' = "nla"
    /\ UNCHANGED trackVars
    /\ UNCHANGED <<animation_modes, escn_nodes, pre, ncalls, got>>

\* a strip with no action, or with an action already exported
skip_nla_strip ==
    /\ pc = "nla"
    /\ cur.idx <= Len(Strips)
    /\ ~ExportsStrip(Strips[cur.idx])
    /\ cur' = [cur EXCEPT !.idx = @ + 1]
    /\ UNCHANGED trackVars
    /\ UNCHANGED <<animation_modes, players, escn_nodes, resources, objects,
                   actions, pc, pre, exportLog, ncalls, got>>

\* if active_action is not None:
\*     blender_object.animation_data.action = active_action
restore_active_action ==
    /\ pc = "nla"
    /\ cur.idx > Len(Strips)
    /\ objects' = IF cur.active_action # None
                  THEN [objects EXCEPT ![cur.node].action = cur.active_action]
                  ELSE objects
    /\ pc' = "idle"
    /\ UNCHANGED trackVars
    /\ UNCHANGED <<animation_modes, players, escn_nodes, resources, actions,
                   cur, pre, exportLog, ncalls, got>>

Next ==
    \/ \E node \in Entities, action_type \in ActionTypes, use \in BOOLEAN :
           export_animation_data_return(node, action_type, use)
    \/ \E node \in Entities, action_type \in ActionTypes, use \in BOOLEAN :
           export_animation_data_begin(node, action_type, use)
    \/ \E activates \in BOOLEAN : export_active_action_bake(activates)
    \/ export_active_action_export
    \/ skip_active_action
    \/ \E activates \in BOOLEAN : export_nla_action_bake(activates)
    \/ export_nla_action_export
    \/ skip_nla_strip
    \/ restore_active_action

Spec == Init /\ [][Next]_vars

(***************************************************************************)
(* Claims about export_animation_data                                      *)
(***************************************************************************)
\* an export_animation_data call has returned
Returned == pc = "idle" /\ ncalls > 0

C2_NamesAtReturn ==
    Returned =>
        /\ \A a \in DOMAIN pre.actions \cap DOMAIN actions : actions[a] = pre.actions[a]
        /\ \A a \in DOMAIN actions : ~EndsWithSuffix(actions[a])

\* C2 (step part): no step of a call that does not need baking changes the
\* name of a stored action.
C2_NoRenameWithoutBake ==
    ~cur'.need_bake =>
        \A a \in DOMAIN actions : a \in DOMAIN actions' /\ actions'[a] = actions[a]

\* C2: every rename that appends BAKING_SUFFIX is undone before the call
\* returns, so that every stored action has the name it had before the call
\* and none ends with the suffix; without baking no name changes at any step.
C2_NamesRestored == [](C2_NamesAtReturn) /\ [][C2_NoRenameWithoutBake]_vars

\* a baking call has returned after it renamed and baked the active action
\* and a strip action
C2_Witness ==
    /\ Returned
    /\ cur.need_bake
    /\ \E i, j \in DOMAIN exportLog :
          /\ exportLog[i].kind = "active" /\ exportLog[i].src # None
          /\ exportLog[j].kind = "nla" /\ exportLog[j].bakes # <<>>
    /\ actions = pre.actions

\* C3: every action created by baking is removed in the same call right
\* after exporter_func has consumed it: outside the span between a bake and
\* its export the stored actions are those stored before the call, and no
\* action stored before the call is ever removed.
C3_BakedActionsRemoved ==
    /\ pc \notin {"active_export", "nla_export"} => DOMAIN actions = DOMAIN pre.actions
    /\ DOMAIN pre.actions \subseteq DOMAIN actions

\* a call has returned after an active pass and a strip pass that each baked
\* OBJECT and then POSE in place
C3_Witness ==
    /\ Returned
    /\ \E i, j \in DOMAIN exportLog :
          /\ exportLog[i].kind = "active" /\ Len(exportLog[i].bakes) = 2
          /\ exportLog[j].kind = "nla" /\ Len(exportLog[j].bakes) = 2
    /\ DOMAIN actions = DOMAIN pre.actions

\* C4: within one export_animation_data call no action is exported more
\* than once.
C4_NoActionExportedTwice ==
    \A i, j \in DOMAIN exportLog :
        (i # j /\ exportLog[i].src # None) => exportLog[i].src # exportLog[j].src

\* C9: an 'anims/<name>' entry a player holds is never replaced.
C9_AnimsEntryNeverReplaced ==
    [][\A p \in DOMAIN players : \A n \in DOMAIN players[p].anims :
           players'[p].anims[n] = players[p].anims[n]]_vars

\* the exports of the running call of one kind
ExportsOfKind(kind) == {i \in DOMAIN exportLog : exportLog[i].kind = kind}

\* C10 as claimed: every export of an action registers exactly one new
\* animation resource.
C10_OneResourcePerExport ==
    Len(resources) - pre.nres = Len(exportLog)

\* C10 as amended: every strip-action export registers exactly one new
\* resource; the active-action export registers exactly one when the player's
\* default_animation was unset on entry and none when it was already set.
C10_ResourcesRegistered ==
    Len(resources) - pre.nres =
        Cardinality(ExportsOfKind("nla"))
        + (IF ExportsOfKind("active") # {} /\ pre.default = None THEN 1 ELSE 0)

\* a call has returned whose active export reused the default resource of a
\* shared player and whose strip export registered a resource
C10_Witness ==
    /\ Returned
    /\ pre.default # None
    /\ ExportsOfKind("active") # {}
    /\ ExportsOfKind("nla") # {}
    /\ Len(resources) - pre.nres = 1

\* C11: whenever baking is required and the entity has no active action,
\* the call performs exactly one bake-only pass with no base action and
\* exports the baked result into the default resource of the player; this
\* for an entity with no animation data and for an entity with animation
\* data but no action assigned.
C11_BakeOnlyPass ==
    (Returned /\ cur.need_bake /\ pre.active = None) =>
        /\ Cardinality(ExportsOfKind("active")) = 1
        /\ \A i \in ExportsOfKind("active") :
              /\ exportLog[i].src = None
              /\ exportLog[i].bakes # <<>>
              /\ exportLog[i].bakes[1].base = None
              /\ exportLog[i].res = players[cur.player].default_animation

\* C12: a call made with animation export disabled, or for an entity with
\* no animation data when baking is not required (baking is required exactly
\* when the subject is 'transform' and the entity has an object constraint or
\* a pose-bone constraint), returns at once: no player is looked up or
\* created, no resource registered, no bake made, no action renamed, added
\* or removed and no active action changed.
C12_EarlyReturnNoOp ==
    [][ncalls' = ncalls + 1 =>
          LET ob == objects[cur'.node]
              required == /\ cur'.action_type = "transform"
                          /\ (ob.constraints \/ ob.pose_constraints)
          IN (~cur'.use_export_animation \/ (~ob.animation_data /\ ~required)) =>
                 /\ pc' = "idle"
                 /\ cur'.player = None
                 /\ cur'.bakes = <<>>
                 /\ players' = players
                 /\ escn_nodes' = escn_nodes
                 /\ got' = got
                 /\ resources' = resources
                 /\ objects' = objects
                 /\ actions' = actions
                 /\ exportLog' = <<>>]_vars

\* after an exporting call created a player, an enabled 'shapekey' call for
\* a constrained entity with no animation data has returned at once
C12_Witness ==
    /\ Returned
    /\ ncalls = 2
    /\ players # <<>>
    /\ cur.player = None
    /\ cur.use_export_animation
    /\ cur.action_type = "shapekey"
    /\ ~cur.animation_data
    /\ objects[cur.node].constraints
    /\ exportLog = <<>>

\* C13: between the baking and the export of a pass, the bake calls made
\* are: with object and pose-bone constraints, 'OBJECT' not in place on the
\* action of the pass and then 'POSE' in place into the action that bake
\* created; with only pose-bone or only object constraints, one 'POSE' bake
\* not in place on the action of the pass.  Exactly one stored action is new
\* and it is the one exported.
C13_BakeCalls ==
    (pc \in {"active_export", "nla_export"} /\ cur.need_bake) =>
        /\ Cardinality(DOMAIN actions \ DOMAIN pre.actions) = 1
        /\ cur.to_export \in DOMAIN actions \ DOMAIN pre.actions
        /\ IF objects[cur.node].constraints /\ objects[cur.node].pose_constraints
           THEN cur.bakes =
                    <<[type |-> "OBJECT", in_place |-> FALSE, base |-> cur.src],
                      [type |-> "POSE", in_place |-> TRUE, base |-> cur.to_export]>>
           ELSE cur.bakes =
                    <<[type |-> "POSE", in_place |-> FALSE, base |-> cur.src]>>

\* a strip action has been baked for an entity with only object constraints,
\* after the active action was baked
C13_Witness ==
    /\ pc = "nla_export"
    /\ cur.need_bake
    /\ objects[cur.node].constraints
    /\ ~objects[cur.node].pose_constraints
    /\ cur.src # None
    /\ Len(cur.bakes) = 1
    /\ exportLog # <<>>

\* C15 (default kept): a default_animation that is set is never replaced.
C15_DefaultNeverReplaced ==
    \A p \in DOMAIN players :
        players[p].default_animation # None =>
            players'[p].default_animation = players[p].default_animation

\* C15 (strips): the export of a strip action neither sets nor changes the
\* default_animation of any player.
C15_StripsLeaveDefault ==
    pc = "nla_export" =>
        \A p \in DOMAIN players :
            players'[p].default_animation = players[p].default_animation

\* C15 (active): the export of the active action on a player with no
\* default_animation creates a resource, registers it and makes it the
\* default; on a player with a default it adds its track to that resource
\* and registers none.
C15_ActiveUsesDefault ==
    pc = "active_export" =>
        LET d == players[cur.player].default_animation
            e == players'[cur.player].default_animation
        IN IF d = None
           THEN /\ e = Len(resources) + 1
                /\ Len(resources') = Len(resources) + 1
                /\ \E n \in DOMAIN players'[cur.player].anims :
                       players'[cur.player].anims[n] = e
                /\ resources'[e].tracks = <<cur.node>>
           ELSE /\ e = d
                /\ Len(resources') = Len(resources)
                /\ resources'[d].tracks = Append(resources[d].tracks, cur.node)

\* C15: the default resource of a player is established at most once: the
\* first export of an active action on a player with no default_animation
\* creates and registers it, every later one adds its tracks to that same
\* resource, a set default_animation is never replaced and exports of strip
\* actions never set or change it.
C15_DefaultEstablishedOnce ==
    /\ [][C15_DefaultNeverReplaced]_vars
    /\ [][C15_StripsLeaveDefault]_vars
    /\ [][C15_ActiveUsesDefault]_vars

\* the second call has exported its active action into the default resource
\* that the first call established on the shared player, and a strip action
\* into a resource of its own
C15_Witness ==
    /\ Returned
    /\ ncalls = 2
    /\ pre.default # None
    /\ players[cur.player].default_animation = pre.default
    /\ \E i \in ExportsOfKind("active") : exportLog[i].res = pre.default
    /\ \E j \in ExportsOfKind("nla") : exportLog[j].res # pre.default
    /\ Len(resources[pre.default].tracks) = 2

(***************************************************************************)
(* get_animation_player called on its own, under one fixed policy          *)
(***************************************************************************)
InitPlayer ==
    /\ InitCommon
    /\ InitNoTrack
    /\ objects = [e \in Entities |-> NoAnimationData(FALSE, FALSE)]

get_animation_player_call(node) ==
    /\ Len(players) < MaxPlayers
    /\ LET gp == get_animation_player(players, escn_nodes, animation_modes, node)
       IN /\ players' = gp.players
          /\ escn_nodes' = gp.escn_nodes
          /\ got' = [node |-> node, player |-> gp.ret]
    /\ UNCHANGED trackVars
    /\ UNCHANGED <<animation_modes, resources, objects, actions, pc, cur, pre,
                   exportLog, ncalls>>

NextPlayer == \E node \in Nodes : get_animation_player_call(node)

SpecPlayer == InitPlayer /\ [][NextPlayer]_vars

\* C5: under one fixed policy no node ever has two AnimationPlayer children.
C5_AtMostOnePlayerPerNode ==
    \A n \in Nodes : Cardinality(PlayerChildren(players, n)) <= 1

RECURSIVE PathToRoot(_)
\* the node, its parent, ... up to the scene root
PathToRoot(n) == IF n = None THEN <<>> ELSE <<n>> \o PathToRoot(NodeParent(n))

\* the positions on the path of a node whose node has an AnimationPlayer child
Holders(ps, n) ==
    {i \in DOMAIN PathToRoot(n) : PlayerChildren(ps, PathToRoot(n)[i]) # {}}

\* what C6 says of one call for node n
C6_Call(n) ==
    IF Holders(players, n) # {}
    THEN /\ players' = players
         /\ escn_nodes' = escn_nodes
         /\ \E i \in Holders(players, n) :
               /\ \A j \in Holders(players, n) : i <= j
               /\ got'.player \in PlayerChildren(players, PathToRoot(n)[i])
    ELSE /\ Len(players') = Len(players) + 1
         /\ SubSeq(players', 1, Len(players)) = players
         /\ players'[Len(players')].parent = n
         /\ got'.player = Len(players')
         /\ escn_nodes' = Append(escn_nodes, Len(players'))

\* C6: under 'SQUASHED_ACTIONS' a call returns the AnimationPlayer child of
\* the nearest node, on the walk from the node up to the root, that has one,
\* and changes nothing; when no node on the walk has one it creates exactly
\* one player whose parent is the node itself and adds it to the escn file.
C6_NearestPlayer ==
    [][animation_modes = "SQUASHED_ACTIONS" => C6_Call(got'.node)]_vars

\* node 3 got the player of its parent 2 although the root has one too, and
\* the sibling 4 of node 2 has its own
C6_Witness ==
    /\ animation_modes = "SQUASHED_ACTIONS"
    /\ got.node = 3
    /\ players[got.player].parent = 2
    /\ PlayerChildren(players, 1) # {}
    /\ PlayerChildren(players, 4) # {}

(***************************************************************************)
(* Tracks and their serialization                                          *)
(***************************************************************************)
\* number of frames of a serialized track
MaxFrames == 4
\* number of add_track calls on one AnimationResource
MaxTracks == 2
\* number of frames of a track added to the AnimationResource
MaxTrackFrames == 2

FpsValues == {1, 24, 30}
FrameNumbers == -1..3
SampleValues == {-1, 0, 1}

\* the strictly increasing frame lists of at most n frames
FrameLists(n) ==
    {f \in UNION {[1..k -> FrameNumbers] : k \in 0..n} :
        \A i \in DOMAIN f : i > 1 => f[i - 1] < f[i]}

\* frame / bpy.context.scene.render.fps, as a fraction
Time(frame) == [num |-> frame, den |-> fps]

\* a < b and a = b for fractions with positive denominators
RatLess(a, b) == a.num * b.den < b.num * a.den
RatEq(a, b) == a.num * b.den = b.num * a.den

\* Track.__init__: interpolation defaults to linear
Track(track_type, frames, values) ==
    [type |-> track_type, interp |-> LINEAR_INTERPOLATION,
     frames |-> frames, values |-> values]

\* Track.frame_end
frame_end(track) ==
    IF track.frames = <<>> THEN 0 ELSE track.frames[Len(track.frames)]

\* the skip test with the first comparison one frame late
SkipFrameLate(interp, value_list, index) ==
    /\ interp = LINEAR_INTERPOLATION
    /\ index > 2
    /\ value_list[index] = value_list[index - 1]

\* if (interp == LINEAR_INTERPOLATION and index > 0 and
\*         value_list[index] == value_list[index - 1]): continue
\* (index counts from 1 here)
SkipFrame(interp, value_list, index) ==
    /\ interp = LINEAR_INTERPOLATION
    /\ index > 1
    /\ value_list[index] = value_list[index - 1]

RECURSIVE ValueKeysLoop(_, _, _, _, _)
ValueKeysLoop(frame_list, value_list, interp, index, acc) ==
    IF index > Len(frame_list) THEN acc
    ELSE IF SkipFrame(interp, value_list, index)
    THEN ValueKeysLoop(frame_list, value_list, interp, index + 1, acc)
    ELSE ValueKeysLoop(frame_list, value_list, interp, index + 1,
            [times |-> Append(acc.times, Time(frame_list[index])),
             transitions |-> Append(acc.transitions, 1),
             values |-> Append(acc.values, value_list[index])])

\* value_frames_to_keys
value_frames_to_keys(frame_list, value_list, interp) ==
    LET a == ValueKeysLoop(frame_list, value_list, interp, 1,
                           [times |-> <<>>, transitions |-> <<>>, values |-> <<>>])
    IN [times |-> a.times, transitions |-> a.transitions, update |-> 0,
        values |-> a.values]

\* fix_matrix and the decomposition into location, quaternion and scale:
\* one-to-one on the matrices
fix_matrix(mat) == <<"y-up", mat>>

RECURSIVE TransformKeysLoop(_, _, _, _, _)
TransformKeysLoop(frame_list, value_list, interp, index, array) ==
    IF index > Len(frame_list) THEN array
    ELSE IF SkipFrame(interp, value_list, index)
    THEN TransformKeysLoop(frame_list, value_list, interp, index + 1, array)
    ELSE TransformKeysLoop(frame_list, value_list, interp, index + 1,
            Append(array, [time |-> Time(frame_list[index]), transition |-> 1,
                           transform |-> fix_matrix(value_list[index])]))

\* transform_frames_to_keys: the array holds, for every key, the time, the
\* transition and the ten numbers of the transform; one record stands for them
transform_frames_to_keys(frame_list, value_list, interp) ==
    TransformKeysLoop(frame_list, value_list, interp, 1, <<>>)

\* int(x) of a number given as twice its value: rounds towards zero
IntOfHalves(h) == IF h >= 0 THEN h \div 2 ELSE -((-h) \div 2)

\* the value-mapping functions of the exporters: None, lambda x: x > 0.0
MapFuncs == {"None", "positive"}
ApplyMap(map_func, x) == IF map_func = "None" THEN x ELSE x > 0

\* build_const_interp_value_track; a keyframe point is [co0_twice, co1]
build_const_interp_value_track(map_func, keyframe_points) ==
    [Track("value",
           [i \in DOMAIN keyframe_points |-> IntOfHalves(keyframe_points[i].co0_twice)],
           [i \in DOMAIN keyframe_points |-> ApplyMap(map_func, keyframe_points[i].co1)])
     EXCEPT !.interp = NEAREST_INTERPOLATION]

\* get_fcurve_frame_range; fcurve.range() is given as twice its two ends
get_fcurve_frame_range(fcurve) ==
    <<IntOfHalves(fcurve.range_twice[1]), IntOfHalves(fcurve.range_twice[2]) + 1>>

\* build_linear_interp_value_track: one frame for every frame of the range,
\* its value fcurve.evaluate(frame)
build_linear_interp_value_track(map_func, fcurve) ==
    LET frame_range == get_fcurve_frame_range(fcurve)
        n == frame_range[2] - frame_range[1]
    IN Track("value",
             [i \in 1..n |-> frame_range[1] + i - 1],
             [i \in 1..n |-> ApplyMap(map_func, fcurve.evaluate[frame_range[1] + i - 1])])

\* the keys entry add_track writes for a track
TrackKeys(track) ==
    IF track.type = "transform"
    THEN transform_frames_to_keys(track.frames, track.values, track.interp)
    ELSE value_frames_to_keys(track.frames, track.values, track.interp)

InitNoExport ==
    /\ InitCommon
    /\ animation_modes = "ACTIONS"
    /\ objects = [e \in Entities |-> NoAnimationData(FALSE, FALSE)]

InitKeys ==
    /\ InitNoExport
    /\ fps \in FpsValues
    /\ \E f \in FrameLists(MaxFrames) :
           input \in [frames : {f}, values : [DOMAIN f -> SampleValues]]
    /\ keys = [kind |-> "none"]
    /\ anim = [length |-> [num |-> 0, den |-> 1], track_count |-> 0, tracks |-> <<>>]
    /\ tfm = NoTransformExport

\* a value track or a transform track of the input is serialized
serialize_track(track_type, interp) ==
    /\ keys.kind = "none"
    /\ LET track == [Track(track_type, input.frames, input.values)
                        EXCEPT !.interp = interp]
       IN keys' = [kind |-> track_type, interp |-> interp, points |-> Len(input.frames),
                   frames |-> track.frames, values |-> track.values,
                   keys |-> TrackKeys(track), builder |-> "Track", map_func |-> "None"]
    /\ UNCHANGED <<fps, input, anim, tfm>>
    /\ UNCHANGED exportVars

\* a constant-interpolation curve whose keyframe points are the input (placed
\* on the frame or half a frame after it) is built into a track and serialized
serialize_const_track(map_func, half) ==
    /\ keys.kind = "none"
    /\ LET points == [i \in DOMAIN input.frames |->
                         [co0_twice |-> 2 * input.frames[i] + half,
                          co1 |-> input.values[i]]]
           track == build_const_interp_value_track(map_func, points)
       IN keys' = [kind |-> track.type, interp |-> track.interp, points |-> Len(points),
                   frames |-> track.frames, values |-> track.values,
                   keys |-> TrackKeys(track), builder |-> "const", map_func |-> map_func]
    /\ UNCHANGED <<fps, input, anim, tfm>>
    /\ UNCHANGED exportVars

\* the fcurve whose range starts at the first frame of the input (or half a
\* frame after it), spans one frame per input value and evaluates to the
\* input values, held before the first and after the last
FCurveOfInput(half) ==
    LET first == input.frames[1]
        n == Len(input.values)
        Clamp(i) == IF i < 1 THEN 1 ELSE IF i > n THEN n ELSE i
    IN [range_twice |-> <<2 * first + half, 2 * (first + n - 1) + half>>,
        evaluate |-> [f \in (first - 1)..(first + n) |->
                         input.values[Clamp(f - first + 1)]]]

\* a curve is sampled into a linear value track and serialized
serialize_linear_track(map_func, half) ==
    /\ keys.kind = "none"
    /\ input.frames # <<>>
    /\ LET track == build_linear_interp_value_track(map_func, FCurveOfInput(half))
       IN keys' = [kind |-> track.type, interp |-> track.interp,
                   points |-> Len(track.frames),
                   frames |-> track.frames, values |-> track.values,
                   keys |-> TrackKeys(track), builder |-> "linear", map_func |-> map_func]
    /\ UNCHANGED <<fps, input, anim, tfm>>
    /\ UNCHANGED exportVars

NextKeys ==
    \/ \E track_type \in {"value", "transform"},
          interp \in {NEAREST_INTERPOLATION, LINEAR_INTERPOLATION} :
           serialize_track(track_type, interp)
    \/ \E map_func \in MapFuncs, half \in {0, 1} : serialize_const_track(map_func, half)
    \/ \E map_func \in MapFuncs, half \in {0, 1} : serialize_linear_track(map_func, half)

SpecKeys == InitKeys /\ [][NextKeys]_vars

\* the source values of the emitted keys, in order
EmittedValues ==
    IF keys.kind = "transform"
    THEN [i \in DOMAIN keys.keys |-> keys.keys[i].transform[2]]
    ELSE keys.keys.values

\* the times of the emitted keys, in order
EmittedTimes ==
    IF keys.kind = "transform"
    THEN [i \in DOMAIN keys.keys |-> keys.keys[i].time]
    ELSE keys.keys.times

\* the frames that begin a run of equal consecutive values
RunStarts(values) == {i \in DOMAIN values : i = 1 \/ values[i] # values[i - 1]}

\* C7: in the keys of a linear-interpolation track no two adjacent emitted
\* keyframes have identical source values, and the emitted keyframes are the
\* first frames of the runs of equal consecutive values; a nearest
\* (constant) interpolation track emits one keyframe per control point.
C7_Coalescing ==
    keys.kind # "none" =>
        IF keys.interp = LINEAR_INTERPOLATION
        THEN /\ \A i \in 1..(Len(EmittedValues) - 1) :
                    EmittedValues[i] # EmittedValues[i + 1]
             /\ Len(EmittedTimes) = Cardinality(RunStarts(keys.values))
             /\ \A i \in RunStarts(keys.values) :
                    \E k \in DOMAIN EmittedTimes :
                        /\ EmittedTimes[k] = Time(keys.frames[i])
                        /\ EmittedValues[k] = keys.values[i]
        ELSE /\ Len(EmittedTimes) = keys.points
             /\ EmittedValues = keys.values

\* a linear transform track with a run of equal matrices lost keys, yet not
\* all but one
C7_Witness ==
    /\ keys.kind = "transform"
    /\ keys.interp = LINEAR_INTERPOLATION
    /\ Len(keys.keys) < Len(input.frames)
    /\ Len(keys.keys) >= 2

\* the value a player shows at `frame`: the linear interpolation between the
\* emitted keys around it, the last value held after the last key; given as
\* a fraction
InterpolatedAt(frame) ==
    LET t == keys.keys.times
        v == keys.keys.values
        n == Len(t)
    IN IF frame >= t[n].num
       THEN [num |-> v[n], den |-> 1]
       ELSE LET k == CHOOSE k \in 1..(n - 1) : t[k].num <= frame /\ frame < t[k + 1].num
                a == t[k].num
                b == t[k + 1].num
            IN [num |-> v[k] * (b - a) + (v[k + 1] - v[k]) * (frame - a),
                den |-> b - a]

\* C17: the keys of a linear value track built from a curve reproduce the
\* curve at every integer frame of the track's range: interpolating linearly
\* between the emitted keyframes around the frame (the last value held after
\* the last key) gives the sampled value, also within and after a run of
\* equal values.
C17_LosslessAtSampledFrames ==
    (keys.kind = "value" /\ keys.builder = "linear" /\ keys.map_func = "None") =>
        \A i \in DOMAIN keys.frames :
            RatEq(InterpolatedAt(keys.frames[i]), [num |-> keys.values[i], den |-> 1])

(***************************************************************************)
(* AnimationResource.add_track                                             *)
(***************************************************************************)
\* add_track that takes the length of every added track
add_track_overwrite(res, track) ==
    [length |-> [num |-> frame_end(track), den |-> fps],
     track_count |-> res.track_count + 1,
     tracks |-> Append(res.tracks,
                       [type |-> track.type, interp |-> track.interp,
                        frames |-> track.frames, keys |-> TrackKeys(track)])]

\* AnimationResource.add_track
add_track(res, track) ==
    LET track_length == [num |-> frame_end(track), den |-> fps] IN
    [length |-> IF RatLess(res.length, track_length) THEN track_length ELSE res.length,
     track_count |-> res.track_count + 1,
     tracks |-> Append(res.tracks,
                       [type |-> track.type, interp |-> track.interp,
                        frames |-> track.frames, keys |-> TrackKeys(track)])]

InitResource ==
    /\ InitNoExport
    /\ fps \in FpsValues
    /\ input = [frames |-> <<>>, values |-> <<>>]
    /\ keys = [kind |-> "none"]
    /\ anim = [length |-> [num |-> 0, den |-> 1], track_count |-> 0, tracks |-> <<>>]
    /\ tfm = NoTransformExport

\* a value track with the given frames is added to the resource
add_track_call(frames) ==
    /\ anim.track_count < MaxTracks
    /\ anim' = add_track(anim, Track("value", frames, [i \in DOMAIN frames |-> 0]))
    /\ UNCHANGED <<fps, input, keys, tfm>>
    /\ UNCHANGED exportVars

NextResource == \E frames \in FrameLists(MaxTrackFrames) : add_track_call(frames)

SpecResource == InitResource /\ [][NextResource]_vars

\* the last frame numbers of the added tracks (0 for a track without frames)
TrackEnds == {frame_end(anim.tracks[i]) : i \in DOMAIN anim.tracks}

SetMax(S) == CHOOSE x \in S : \A y \in S : y <= x

\* C8 as claimed: after add_track calls 'length' is the maximum over the
\* added tracks of last frame / fps.
C8_LengthIsMaxOfTracks ==
    anim.tracks # <<>> => RatEq(anim.length, [num |-> SetMax(TrackEnds), den |-> fps])

\* C8 as amended (state part): 'length' is the maximum of 0 and of
\* last frame / fps over the added tracks, a track without frames counting
\* as frame 0.
C8_LengthAtLeastZero ==
    RatEq(anim.length, [num |-> SetMax(TrackEnds \cup {0}), den |-> fps])

\* C8 as amended: 'length' is the maximum of 0 and of last frame / fps over
\* the added tracks, and no add_track call decreases it.
C8_LengthIsMaxWithZero ==
    [](C8_LengthAtLeastZero) /\ [][~RatLess(anim'.length, anim.length)]_vars

\* a longer track, then a track whose frames are all negative: the length
\* stayed that of the first
C8_Witness ==
    /\ Len(anim.tracks) = 2
    /\ frame_end(anim.tracks[1]) > 0
    /\ frame_end(anim.tracks[2]) < 0
    /\ RatEq(anim.length, [num |-> frame_end(anim.tracks[1]), den |-> fps])

(***************************************************************************)
(* export_transform_action                                                 *)
(***************************************************************************)
\* number of fcurves of the action
MaxCurves == 3

\* TransformFrame.ATTRIBUTES
ATTRIBUTES == {"location", "scale", "rotation_quaternion", "rotation_euler"}

\* the attribute names of the fcurves of an action: two transform
\* attributes and one that is none
AttributeNames == {"location", "rotation_euler", "hide_render"}

\* the object paths of the fcurves, as their parts between the dots: the
\* node itself, pose.bones["b1"], pose.bones["b2"] and constraints["c1"]
\* (a bone is written by its name, a constraint by its name)
ObjectPaths == {<<>>, <<"pose", "b1">>, <<"pose", "b2">>, <<"c1">>}

\* fcurve.data_path: the object path, a dot if it is not empty, the attribute
DataPaths == {p \o <<a>> : p \in ObjectPaths, a \in AttributeNames}

NodeTypes == {"Skeleton", "Spatial", "Camera"}
ParentTypes == {"Spatial", "BoneAttachment"}

\* the bones of the exported skeleton
BoneSets == {{}, {"b1"}}

\* action.frame_range, each end given as twice its value
FrameRanges == {<<0, 1>>, <<2, 4>>}

\* split_fcurve_data_path: rsplit('.', 1)
split_fcurve_data_path(data_path) ==
    IF Len(data_path) = 1
    THEN [object_path |-> <<>>, attribute |-> data_path[1]]
    ELSE [object_path |-> SubSeq(data_path, 1, Len(data_path) - 1),
          attribute |-> data_path[Len(data_path)]]

\* object_path.startswith('pose')
StartsWithPose(object_path) == object_path # <<>> /\ object_path[1] = "pose"

\* blender_path_to_bone_name
blender_path_to_bone_name(blender_object_path) == blender_object_path[2]

\* get_action_frame_range
get_action_frame_range(frame_range_twice) ==
    <<IntOfHalves(frame_range_twice[1]), IntOfHalves(frame_range_twice[2]) + 1>>

\* godot_node.find_bone_id(bone_name), -1 for a bone that was not exported
find_bone_id(t, bone_name) == IF bone_name \in t.bones THEN 1 ELSE -1

\* godot_node.find_bone_name(bone_name): the name of the bone in the skeleton
find_bone_name(t, bone_name) == <<"bone", bone_name>>

\* TransformFrame.__init__: the default transform and, for every attribute,
\* the fcurves that wrote into it
TransformFrame(default_transform) ==
    [default |-> default_transform, written |-> [a \in ATTRIBUTES |-> {}]]

\* TransformFrame.update with the array index and the value of fcurve i
update(x, attribute, i) == [x EXCEPT !.written[attribute] = @ \cup {i}]

\* TransformFrame.to_matrix
to_matrix(x) == <<"loc*rot*sca", x>>

\* fix_directional_transform
fix_directional_transform(mtx) == <<"directional", mtx>>

\* NodePath(animation_player.parent.get_path(), godot_node.get_path()[, bone]);
\* no bone is the empty tuple
NodePath(bone) == [node |-> "node", bone |-> bone]

\* init_transform_frame_values without the test of find_bone_id
init_transform_frame_values_any_bone(object_path, t, first_frame, last_frame) ==
    IF StartsWithPose(object_path)
    THEN IF t.node_type # "Skeleton"
         THEN <<>>
         ELSE [i \in 1..(last_frame - first_frame) |->
                  TransformFrame(<<"pose_bone", blender_path_to_bone_name(object_path)>>)]
    ELSE [i \in 1..(last_frame - first_frame) |-> TransformFrame(<<"object">>)]

\* init_transform_frame_values; the None it returns is the empty list here,
\* the caller tests `not frame_values`
init_transform_frame_values(object_path, t, first_frame, last_frame) ==
    IF StartsWithPose(object_path)
    THEN IF t.node_type # "Skeleton"
         THEN <<>>
         ELSE IF find_bone_id(t, blender_path_to_bone_name(object_path)) = -1
         THEN <<>>
         ELSE [i \in 1..(last_frame - first_frame) |->
                  TransformFrame(<<"pose_bone", blender_path_to_bone_name(object_path)>>)]
    ELSE [i \in 1..(last_frame - first_frame) |-> TransformFrame(<<"object">>)]

\* the keys of transform_frame_values_map, an ordered list of
\* [path, frames] here
MapKeys(m) == {m[k].path : k \in DOMAIN m}

\* transform_frame_values_map[object_path][...].update(...) for every frame
UpdateFrames(m, object_path, attribute, i) ==
    [k \in DOMAIN m |->
        IF m[k].path = object_path
        THEN [m[k] EXCEPT !.frames =
                 [f \in DOMAIN m[k].frames |-> update(m[k].frames[f], attribute, i)]]
        ELSE m[k]]

RECURSIVE CollectLoop(_, _, _, _, _)
\* for fcurve in action.fcurves (the first loop), from fcurve i on
CollectLoop(t, first_frame, last_frame, i, m) ==
    IF i > Len(t.fcurves) THEN [map |-> m, error |-> "none"]
    ELSE LET sp == split_fcurve_data_path(t.fcurves[i])
             is_new == sp.object_path \notin MapKeys(m) /\ sp.attribute \in ATTRIBUTES
             frame_values == init_transform_frame_values(sp.object_path, t,
                                                         first_frame, last_frame)
         IN IF is_new /\ frame_values = <<>>
            THEN CollectLoop(t, first_frame, last_frame, i + 1, m)
            ELSE LET m1 == IF is_new
                           THEN Append(m, [path |-> sp.object_path,
                                           frames |-> frame_values])
                           ELSE m
                 IN IF sp.attribute \notin ATTRIBUTES
                    THEN CollectLoop(t, first_frame, last_frame, i + 1, m1)
                    ELSE IF sp.object_path \notin MapKeys(m1)
                    THEN [map |-> m1, error |-> "KeyError"]
                    ELSE CollectLoop(t, first_frame, last_frame, i + 1,
                                     UpdateFrames(m1, sp.object_path, sp.attribute, i))

\* a local variable that has not been assigned
Unbound == [node |-> "unbound", bone |-> <<>>]

\* the matrices of the track of the node itself
ObjectMatrices(t, frame_value_list) ==
    LET local == [f \in DOMAIN frame_value_list |->
                     <<"matrix_parent_inverse", to_matrix(frame_value_list[f])>>]
    IN IF t.node_type \in {"SpotLight", "DirectionalLight", "Camera"}
       THEN [f \in DOMAIN local |-> fix_directional_transform(local[f])]
       ELSE local

\* the matrices of the track of a bone
PoseMatrices(frame_value_list) ==
    [f \in DOMAIN frame_value_list |-> to_matrix(frame_value_list[f])]

RECURSIVE EmitLoop(_, _, _, _, _, _, _)
\* for object_path, frame_value_list in transform_frame_values_map.items()
\* (the second loop), from entry k on; track_path and transform_mtx_list are
\* the locals that outlive an iteration
EmitLoop(t, m, frames, k, track_path, transform_mtx_list, tracks) ==
    IF k > Len(m) THEN [tracks |-> tracks, error |-> "none"]
    ELSE LET object_path == m[k].path
             frame_value_list == m[k].frames
         IN IF object_path = <<>> /\ t.parent_type = "BoneAttachment"
            THEN \* matrix_parent_inverse * x.to_matrix: the method is not called
                 [tracks |-> tracks, error |-> "TypeError"]
            ELSE LET path1 == IF object_path = <<>> THEN NodePath(<<>>)
                              ELSE IF StartsWithPose(object_path)
                              THEN NodePath(find_bone_name(t,
                                       blender_path_to_bone_name(object_path)))
                              ELSE track_path
                     mtx1 == IF object_path = <<>>
                             THEN ObjectMatrices(t, frame_value_list)
                             ELSE IF StartsWithPose(object_path)
                             THEN PoseMatrices(frame_value_list)
                             ELSE transform_mtx_list
                 IN IF path1 = Unbound
                    THEN [tracks |-> tracks, error |-> "UnboundLocalError"]
                    ELSE EmitLoop(t, m, frames, k + 1, path1, mtx1,
                             Append(tracks,
                                    [path |-> path1,
                                     track |-> Track("transform", frames, mtx1)]))

\* export_transform_action: the map, the tracks added to animation_resource
\* and the exception that ended the call, if any
export_transform_action(t) ==
    LET fr == get_action_frame_range(t.frame_range_twice)
        c == CollectLoop(t, fr[1], fr[2], 1, <<>>)
        frames == [f \in 1..(fr[2] - fr[1]) |-> fr[1] + f - 1]
        e == EmitLoop(t, c.map, frames, 1, Unbound, Unbound, <<>>)
    IN IF c.error # "none"
       THEN [map |-> c.map, tracks |-> <<>>, error |-> c.error]
       ELSE [map |-> c.map, tracks |-> e.tracks, error |-> e.error]

\* the actions, nodes and skeletons export_transform_action is called with
InitTransform ==
    /\ InitNoExport
    /\ fps = 1
    /\ input = [frames |-> <<>>, values |-> <<>>]
    /\ keys = [kind |-> "none"]
    /\ anim = [length |-> [num |-> 0, den |-> 1], track_count |-> 0, tracks |-> <<>>]
    /\ \E n \in 0..MaxCurves :
           tfm \in [pc : {"called"}, node_type : NodeTypes, parent_type : ParentTypes,
                    bones : BoneSets, fcurves : [1..n -> DataPaths],
                    frame_range_twice : FrameRanges,
                    map : {<<>>}, tracks : {<<>>}, error : {"none"}]
    /\ tfm.bones # {} => tfm.node_type = "Skeleton"

export_transform_action_call ==
    /\ tfm.pc = "called"
    /\ LET r == export_transform_action(tfm)
       IN tfm' = [tfm EXCEPT !.pc = "done", !.map = r.map, !.tracks = r.tracks,
                             !.error = r.error]
    /\ UNCHANGED <<fps, input, keys, anim>>
    /\ UNCHANGED exportVars

NextTransform == export_transform_action_call

SpecTransform == InitTransform /\ [][NextTransform]_vars

\* the split data paths of the fcurves of the action
Curves == [i \in DOMAIN tfm.fcurves |-> split_fcurve_data_path(tfm.fcurves[i])]

\* a bone path under a node that is no Skeleton, or of a bone that the
\* exported skeleton does not have
Unresolvable(object_path) ==
    /\ object_path # <<>>
    /\ object_path[1] = "pose"
    /\ (tfm.node_type # "Skeleton" \/ object_path[2] \notin tfm.bones)

\* the fcurves with one of the four transform attributes
TransformCurves == {i \in DOMAIN Curves : Curves[i].attribute \in ATTRIBUTES}

\* C14: after export_transform_action, an entity path that cannot be
\* resolved has no frame list and no track, in whatever order its curves
\* come, and an action all of whose transform curves are of such paths is
\* exported without error; every frame list belongs to the path of a curve
\* with a transform attribute and holds only values of such curves of that
\* path; an action with no transform curve emits no track.
C14_UnresolvedAndOtherCurvesSkipped ==
    tfm.pc = "done" =>
        /\ \A i \in DOMAIN Curves :
               Unresolvable(Curves[i].object_path) =>
                   /\ Curves[i].object_path \notin MapKeys(tfm.map)
                   /\ \A k \in DOMAIN tfm.tracks :
                          tfm.tracks[k].path.bone # <<"bone", Curves[i].object_path[2]>>
        /\ (\A i \in TransformCurves : Unresolvable(Curves[i].object_path)) =>
               /\ tfm.error = "none"
               /\ tfm.map = <<>>
               /\ tfm.tracks = <<>>
        /\ \A k \in DOMAIN tfm.map :
               /\ \E i \in TransformCurves : Curves[i].object_path = tfm.map[k].path
               /\ \A f \in DOMAIN tfm.map[k].frames : \A a \in ATTRIBUTES :
                      tfm.map[k].frames[f].written[a] =
                          {i \in TransformCurves :
                               /\ Curves[i].object_path = tfm.map[k].path
                               /\ Curves[i].attribute = a}
        /\ tfm.error # "KeyError"

\* a Skeleton with bone b1 only: a curve of the absent bone b2, then a curve
\* of b1, then another curve of b2 and b1 alone got a frame list and a track
C14_Witness ==
    /\ tfm.pc = "done"
    /\ tfm.node_type = "Skeleton"
    /\ tfm.bones = {"b1"}
    /\ Len(tfm.fcurves) = 3
    /\ tfm.fcurves[1] = <<"pose", "b2", "location">>
    /\ tfm.fcurves[2] = <<"pose", "b1", "location">>
    /\ tfm.fcurves[3] = <<"pose", "b2", "rotation_euler">>
    /\ MapKeys(tfm.map) = {<<"pose", "b1">>}
    /\ Len(tfm.tracks) = 1
    /\ tfm.error = "none"

\* C16: export_transform_action emits exactly one transform track for every
\* entity path that received a frame list, in the order of the frame lists,
\* with the matrices computed from the frame list of that path; no two
\* tracks have the same node path and the call ends without an exception,
\* whatever the data paths of the curves are.
C16_OneTrackPerGroup ==
    tfm.pc = "done" =>
        /\ tfm.error = "none"
        /\ Len(tfm.tracks) = Len(tfm.map)
        /\ \A k \in DOMAIN tfm.tracks :
               \/ tfm.tracks[k].track.values = ObjectMatrices(tfm, tfm.map[k].frames)
               \/ tfm.tracks[k].track.values = PoseMatrices(tfm.map[k].frames)
        /\ \A k, l \in DOMAIN tfm.tracks :
               k # l => tfm.tracks[k].path # tfm.tracks[l].path

====
